---- MODULE Spec2Model ----
(***************************************************************************)
(* A model of src/app.py: the Streamlit script main() that is re-executed  *)
(* top to bottom on every user interaction, with the key/value session     *)
(* store st.session_state carrying results from one run to the next.       *)
(*                                                                         *)
(* Texts are sequences of one-character strings, so that strip, split and  *)
(* lower are computed as the code computes them.  A response of the model  *)
(* service is drawn from a small set; any request may also raise.          *)
(***************************************************************************)
EXTENDS Integers, Sequences, FiniteSets, TLC

VARIABLES
    api_key,        \* os.getenv('OPENAI_API_KEY') is set
    topicIn,        \* value of the text_input widget with key 'topic' (raw)
    answerIn,       \* values of the text_input widgets 'answer_<i>', by i+1
    shown,          \* labels of the answer widgets the last run rendered
    buttonShown,    \* the last run rendered the "Run Research" button
    clicked,        \* the run under way was triggered by a click on it
    keys,           \* the keys main() has written to st.session_state
                    \* (the widgets' own keys are topicIn, answerIn, clicked)
    ss,             \* the values stored under them
    pc,             \* position of the run under way in main(), or "idle"
    topic, questions, answers, plan, clarify_id, goal, queries,
    collected, queries_to_run, idx,      \* locals of main()
    review,         \* text of the review response evaluate() received
    satisfied,      \* what evaluate() returned
    calls,          \* requests sent to the model service by this run
    msg,            \* the message with which the run ended
    planTopic,      \* history: topic the stored goal_plan was generated for
    staleCount,     \* history: leading entries of the stored collected list
                    \*          searched before the stored plan was generated
    awaitClick      \* history: "Click 'Run Research' again" was shown and
                    \*          the button was not clicked since

widgets == <<topicIn, answerIn, shown, buttonShown, clicked>>
store   == <<keys, ss>>
locals  == <<topic, questions, answers, plan, clarify_id, goal, queries,
             collected, queries_to_run, idx, review, satisfied>>
history == <<planTopic, staleCount, awaitClick>>
vars    == <<api_key, widgets, store, pc, locals, calls, msg, history>>

(***************************************************************************)
(* Bounds of the model.                                                    *)
(***************************************************************************)
MaxPad       == 1       \* blanks typed around the topic in its widget
MaxReviewLen == 3       \* characters of a review response (SpecEvaluate)

SeqsUpTo(S, n) == UNION {[1..k -> S] : k \in 0..n}

(***************************************************************************)
(* Text functions of the Python runtime, as the code uses them.            *)
(***************************************************************************)
IsSpace(c) == c \in {" ", "\t", "\n"}

RECURSIVE LStrip(_)
LStrip(s) == IF s # <<>> /\ IsSpace(Head(s)) THEN LStrip(Tail(s)) ELSE s

RECURSIVE RStrip(_)
RStrip(s) ==
    IF s # <<>> /\ IsSpace(s[Len(s)])
    THEN RStrip(SubSeq(s, 1, Len(s) - 1))
    ELSE s

\* str.strip()
Strip(s) == RStrip(LStrip(s))

\* str.split("\n"): the pieces between line breaks, empty pieces kept
RECURSIVE SplitLines(_)
SplitLines(s) ==
    IF \A i \in 1..Len(s) : s[i] # "\n"
    THEN <<s>>
    ELSE LET k == CHOOSE i \in 1..Len(s) :
                      s[i] = "\n" /\ \A j \in 1..(i - 1) : s[j] # "\n"
         IN  <<SubSeq(s, 1, k - 1)>> \o SplitLines(SubSeq(s, k + 1, Len(s)))

LowerChar(c) ==
    CASE c = "Y" -> "y"
      [] c = "E" -> "e"
      [] c = "S" -> "s"
      [] c = "N" -> "n"
      [] c = "O" -> "o"
      [] OTHER   -> c

\* str.lower()
Lower(s) == [i \in 1..Len(s) |-> LowerChar(s[i])]

\* needle in hay
Contains(hay, needle) ==
    \E i \in 0..(Len(hay) - Len(needle)) :
        SubSeq(hay, i + 1, i + Len(needle)) = needle

\* bool(x) of a str
Truthy(a) == a # ""

\* a faulty variant: any(xs) in place of all(xs)
AnyTruthy(xs) == \E i \in 1..Len(xs) : Truthy(xs[i])

\* all(xs)
All(xs) == \A i \in 1..Len(xs) : Truthy(xs[i])

\* json.loads(text): a text is [json |-> is it valid JSON, value |-> its value]
JsonValid(text) == text.json
JsonLoads(text) == text.value

(***************************************************************************)
(* Inputs: what the user can type and what the model service can answer.   *)
(***************************************************************************)
Topics        == { <<>>, <<"a">>, <<"b">> }
Blanks(n)     == [i \in 1..n |-> " "]
\* a topic as typed: with at most MaxPad blanks before and after it
Pads          == {p \in (0..MaxPad) \X (0..MaxPad) : p[1] + p[2] <= MaxPad}
RawTopics     == { Blanks(p[1]) \o t \o Blanks(p[2]) : t \in Topics, p \in Pads }
AnswerStrings == {"", "x", "y"}

ClarifyTexts  == { <<"q">>, <<"q", "\n", "r">> }
\* the most answer widgets any of these texts gives rise to
MaxQuestions  ==
    LET lens == {Len(SplitLines(t)) : t \in ClarifyTexts}
    IN  CHOOSE n \in lens : \A m \in lens : m <= n

\* Plan responses: two JSON objects with a goal and a query list (one list
\* repeats a query) and one text that is not JSON.  JSON of another shape
\* (no "goal" key) is not among them.
NoPlan        == [goal |-> "", queries |-> <<>>]
PlanResponses ==
    { [id |-> "r1", text |-> [json |-> TRUE,
                              value |-> [goal |-> "g1", queries |-> <<"s1", "s1">>]]],
      [id |-> "r2", text |-> [json |-> TRUE,
                              value |-> [goal |-> "g2", queries |-> <<"s2">>]]],
      [id |-> "r3", text |-> [json |-> FALSE, value |-> NoPlan]] }

SearchResponses == { [id |-> "ws1", text |-> "out1"] }

ReviewTexts   == { <<"Y", "e", "s">>, <<"N", "o">> }
ReviewChars   == {"y", "e", "s", "Y", "E", "S", "n"}

MoreTexts     == { [json |-> TRUE,  value |-> <<"s1", "s3">>],
                   [json |-> FALSE, value |-> <<>>] }

(***************************************************************************)
(* The session store.                                                      *)
(***************************************************************************)
EmptyStore ==
    [clarify |-> <<>>, last_topic |-> <<>>, goal_plan |-> NoPlan,
     clarify_id |-> "", last_answers |-> <<>>, collected |-> <<>>,
     queries |-> <<>>, research_started |-> FALSE]

\* st.session_state.get('research_started'), as a condition
ResearchStarted == "research_started" \in keys /\ ss.research_started

NoCall == [fn |-> "", q |-> "", col |-> <<>>]
Call(f)          == [NoCall EXCEPT !.fn = f]
CallSearch(q)    == [NoCall EXCEPT !.fn = "search", !.q = q]
CallWith(f, col) == [NoCall EXCEPT !.fn = f, !.col = col]

Queries(col) == {col[i].query : i \in 1..Len(col)}

LocalsReset ==
    /\ topic' = <<>>
    /\ questions' = <<>>
    /\ answers' = <<>>
    /\ plan' = NoPlan
    /\ clarify_id' = ""
    /\ goal' = ""
    /\ queries' = <<>>
    /\ collected' = <<>>
    /\ queries_to_run' = <<>>
    /\ idx' = 0
    /\ review' = <<>>
    /\ satisfied' = FALSE

Init ==
    /\ api_key \in BOOLEAN
    /\ topicIn = <<>>
    /\ answerIn = [i \in 1..MaxQuestions |-> ""]
    /\ shown = <<>>
    /\ buttonShown = FALSE
    /\ clicked = FALSE
    /\ keys = {}
    /\ ss = EmptyStore
    /\ pc = "topic"
    /\ topic = <<>>
    /\ questions = <<>>
    /\ answers = <<>>
    /\ plan = NoPlan
    /\ clarify_id = ""
    /\ goal = ""
    /\ queries = <<>>
    /\ collected = <<>>
    /\ queries_to_run = <<>>
    /\ idx = 0
    /\ review = <<>>
    /\ satisfied = FALSE
    /\ calls = <<>>
    /\ msg = ""
    /\ planTopic = <<>>
    /\ staleCount = 0
    /\ awaitClick = FALSE

(***************************************************************************)
(* The functions of src/app.py that main() calls.                          *)
(***************************************************************************)
\* a faulty variant: the value is not stripped
get_topic_raw == topicIn

\* get_topic(): the stripped value of the topic widget
get_topic == Strip(topicIn)

\* get_clarifying_questions(): the response text split on line breaks
get_clarifying_questions(text) == SplitLines(text)

\* get_goal_and_queries(): (json.loads(text), response id)
get_goal_and_queries(r) == [plan |-> JsonLoads(r.text), id |-> r.id]

\* run_search(): one collected result
run_search(q, r) == [query |-> q, resp_id |-> r.id, research_output |-> r.text]

\* a faulty variant: the text is not lower-cased before the test
evaluateCaseSensitive(g, col, text) == Contains(text, <<"y", "e", "s">>)

\* evaluate(client, goal, collected), given the review response's text:
\* "yes" in text.lower()
evaluate(g, col, text) == Contains(Lower(text), <<"y", "e", "s">>)

\* a faulty variant: the topic is not compared with last_topic
NeedClarifyOnce == "clarify" \notin keys

\* line 118: the clarifying questions have to be (re)generated
NeedClarify ==
    \/ "clarify" \notin keys
    \/ "last_topic" \notin keys
    \/ ss.last_topic # topic

\* line 132: the plan has to be (re)generated
NeedPlan ==
    \/ "goal_plan" \notin keys
    \/ "last_answers" \notin keys
    \/ ss.last_answers # answers

\* line 149: the research loop is entered
EnterResearch == clicked \/ ResearchStarted

\* a faulty variant: every query is searched
NotCollectedAlways(q, col) == TRUE

\* line 154: q has no entry in collected yet
NotCollected(q, col) == ~ \E i \in 1..Len(col) : col[i].query = q

(***************************************************************************)
(* The end of a run: main() returns or an exception ends the page render.  *)
(* The framework drops the state of widgets the run did not render.        *)
(***************************************************************************)
Finish(m) ==
    /\ pc' = "idle"
    /\ clicked' = FALSE
    /\ msg' = m
    /\ LocalsReset

\* a run that ends before get_answers() rendered nothing but the topic widget
FinishEarly(m) ==
    /\ Finish(m)
    /\ shown' = <<>>
    /\ buttonShown' = FALSE
    /\ answerIn' = [i \in 1..MaxQuestions |-> ""]
    /\ UNCHANGED topicIn

(***************************************************************************)
(* User interactions: each one reruns the script.                          *)
(***************************************************************************)
Rerun ==
    /\ pc' = "topic"
    /\ calls' = <<>>
    /\ msg' = ""
    /\ UNCHANGED <<api_key, store, locals>>

\* the user types into the topic widget (rendered at line 26)
EditTopic(t) ==
    /\ pc = "idle"
    /\ api_key
    /\ t # topicIn
    /\ topicIn' = t
    /\ Rerun
    /\ UNCHANGED <<answerIn, shown, buttonShown, clicked, history>>

\* the user types into answer widget i (rendered at line 46)
EditAnswer(i, a) ==
    /\ pc = "idle"
    /\ i <= Len(shown)
    /\ a # answerIn[i]
    /\ answerIn' = [answerIn EXCEPT ![i] = a]
    /\ Rerun
    /\ UNCHANGED <<topicIn, shown, buttonShown, clicked, history>>

\* the user clicks "Run Research" (rendered at line 149)
ClickRun ==
    /\ pc = "idle"
    /\ buttonShown
    /\ clicked' = TRUE
    /\ awaitClick' = FALSE
    /\ Rerun
    /\ UNCHANGED <<topicIn, answerIn, shown, buttonShown, planTopic, staleCount>>

(***************************************************************************)
(* main(), step by step.                                                   *)
(***************************************************************************)
\* get_openai_client(), lines 11-16: without a key the run stops
HasClient == api_key

\* lines 107-115
Step1Topic ==
    /\ pc = "topic"
    /\ IF ~HasClient
       THEN FinishEarly("error_key")
       ELSE IF get_topic = <<>>
       THEN FinishEarly("info_topic")
       ELSE /\ topic' = get_topic
            /\ pc' = "clarify"
            /\ UNCHANGED <<widgets, questions, answers, plan, clarify_id, goal,
                           queries, collected, queries_to_run, idx, review,
                           satisfied, msg>>
    /\ UNCHANGED <<api_key, store, calls, history>>

\* lines 118-123
Step2Clarify ==
    /\ pc = "clarify"
    /\ IF NeedClarify
       THEN \E text \in ClarifyTexts :
              /\ questions' = get_clarifying_questions(text)
              /\ calls' = Append(calls, Call("clarify"))
              /\ ss' = [ss EXCEPT !.clarify = questions', !.last_topic = topic]
              /\ keys' = keys \cup {"clarify", "last_topic"}
       ELSE /\ questions' = ss.clarify
            /\ UNCHANGED <<store, calls>>
    /\ pc' = "answers"
    /\ UNCHANGED <<api_key, widgets, topic, answers, plan, clarify_id, goal,
                   queries, collected, queries_to_run, idx, review, satisfied,
                   msg, history>>

\* What text_input(question, key='answer_<i>') can return: the stored value
\* of the widget while its label is unchanged; after a change of label the
\* framework keeps or resets the value, depending on its version.
WidgetValues(i) ==
    IF i <= Len(shown) /\ shown[i] = questions[i]
    THEN {answerIn[i]}
    ELSE {answerIn[i], ""}

\* lines 126-129, get_answers()
Step3Answers ==
    /\ pc = "answers"
    /\ \E vals \in [1..Len(questions) -> AnswerStrings] :
         /\ \A i \in 1..Len(questions) : vals[i] \in WidgetValues(i)
         /\ answerIn' = [i \in 1..MaxQuestions |->
                            IF i <= Len(questions) THEN vals[i] ELSE ""]
         /\ shown' = questions
         /\ buttonShown' = FALSE
         /\ IF ~All(vals)
            THEN Finish("info_answers")
            ELSE /\ answers' = vals
                 /\ pc' = "plan"
                 /\ UNCHANGED <<clicked, topic, questions, plan, clarify_id,
                                goal, queries, collected, queries_to_run, idx,
                                review, satisfied, msg>>
    /\ UNCHANGED <<api_key, topicIn, store, calls, history>>

\* a faulty variant: last_answers is stored before the response is parsed
PlanRaisesAfterStore ==
    /\ Finish("exc_json_plan")
    /\ ss' = [ss EXCEPT !.last_answers = answers]
    /\ keys' = keys \cup {"goal_plan", "last_answers"}
    /\ UNCHANGED history

\* line 63: json.loads raises, before anything of lines 134-136 is stored
PlanRaises ==
    /\ Finish("exc_json_plan")
    /\ UNCHANGED <<store, history>>

\* the stored goal_plan, clarify_id and last_answers after line 136
StorePlan(got) ==
    [ss EXCEPT !.goal_plan = got.plan, !.clarify_id = got.id,
               !.last_answers = answers]

\* lines 132-139
Step4Plan ==
    /\ pc = "plan"
    /\ IF NeedPlan
       THEN \E r \in PlanResponses :
              /\ calls' = Append(calls, Call("plan"))
              /\ IF ~JsonValid(r.text)
                 THEN PlanRaises
                 ELSE LET got == get_goal_and_queries(r) IN
                      /\ plan' = got.plan
                      /\ clarify_id' = got.id
                      /\ ss' = StorePlan(got)
                      /\ keys' = keys \cup {"goal_plan", "clarify_id", "last_answers"}
                      /\ planTopic' = topic
                      /\ staleCount' = IF "collected" \in keys
                                       THEN Len(ss.collected) ELSE 0
                      /\ pc' = "button"
                      /\ UNCHANGED <<clicked, topic, questions, answers, goal,
                                     queries, collected, queries_to_run, idx,
                                     review, satisfied, msg, awaitClick>>
       ELSE /\ plan' = ss.goal_plan
            /\ clarify_id' = ss.clarify_id
            /\ pc' = "button"
            /\ UNCHANGED <<clicked, topic, questions, answers, goal, queries,
                           collected, queries_to_run, idx, review, satisfied,
                           msg, store, calls, history>>
    /\ UNCHANGED <<api_key, topicIn, answerIn, shown, buttonShown>>

\* line 152: the queries this round runs
QueriesToRun(col) ==
    IF col = <<>> THEN plan.queries
    ELSE IF "queries" \in keys THEN ss.queries ELSE plan.queries

\* lines 141-152
Step5Button ==
    /\ pc = "button"
    /\ buttonShown' = TRUE
    /\ IF EnterResearch
       THEN /\ goal' = plan.goal
            /\ queries' = plan.queries
            /\ ss' = [ss EXCEPT !.research_started = TRUE]
            /\ keys' = keys \cup {"research_started"}
            /\ collected' = IF "collected" \in keys THEN ss.collected ELSE <<>>
            /\ queries_to_run' = QueriesToRun(collected')
            /\ idx' = 1
            /\ pc' = "loop"
            /\ UNCHANGED <<clicked, topic, questions, answers, plan, clarify_id,
                           review, satisfied, msg>>
       ELSE /\ Finish("plan_shown")
            /\ UNCHANGED store
    /\ UNCHANGED <<api_key, topicIn, answerIn, shown, calls, history>>

\* a faulty variant: the loop is left after its first iteration
LoopDoneEarly == idx > 1

\* line 153: the for loop has run through queries_to_run
LoopDone == idx > Len(queries_to_run)

\* lines 153-159: one iteration of the for loop
Step5Loop ==
    /\ pc = "loop"
    /\ ~LoopDone
    /\ LET q == queries_to_run[idx] IN
       IF NotCollected(q, collected)
       THEN \E r \in SearchResponses :
              /\ calls' = Append(calls, CallSearch(q))
              /\ collected' = Append(collected, run_search(q, r))
              /\ ss' = [ss EXCEPT !.collected = collected',
                                  !.queries = queries_to_run]
              /\ keys' = keys \cup {"collected", "queries"}
       ELSE UNCHANGED <<calls, collected, store>>
    /\ idx' = idx + 1
    /\ UNCHANGED <<api_key, widgets, pc, topic, questions, answers, plan,
                   clarify_id, goal, queries, queries_to_run, review,
                   satisfied, msg, history>>

\* line 161
Step6Evaluate ==
    /\ pc = "loop"
    /\ LoopDone
    /\ \E text \in ReviewTexts :
         /\ review' = text
         /\ satisfied' = evaluate(goal, collected, text)
         /\ pc' = IF evaluate(goal, collected, text) THEN "synthesize" ELSE "more"
    /\ calls' = Append(calls, CallWith("evaluate", collected))
    /\ UNCHANGED <<api_key, widgets, store, topic, questions, answers, plan,
                   clarify_id, goal, queries, collected, queries_to_run, idx,
                   msg, history>>

\* lines 162-166
Step7Synthesize ==
    /\ pc = "synthesize"
    /\ calls' = Append(calls, CallWith("synthesize", collected))
    /\ ss' = [ss EXCEPT !.research_started = FALSE, !.collected = <<>>]
    /\ keys' = keys \cup {"collected"}
    /\ staleCount' = 0
    /\ Finish("report")
    /\ UNCHANGED <<api_key, topicIn, answerIn, shown, buttonShown, planTopic,
                   awaitClick>>

\* lines 168-179
Step8More ==
    /\ pc = "more"
    /\ calls' = Append(calls, Call("more"))
    /\ \E text \in MoreTexts :
         IF ~JsonValid(text)
         THEN /\ Finish("exc_json_more")
              /\ UNCHANGED <<store, awaitClick>>
         ELSE /\ ss' = [ss EXCEPT !.queries = JsonLoads(text)]
              /\ keys' = keys \cup {"queries"}
              /\ awaitClick' = TRUE
              /\ Finish("warning_more")
    /\ UNCHANGED <<api_key, topicIn, answerIn, shown, buttonShown, planTopic,
                   staleCount>>

\* the request the run is about to send, if any
NextCall ==
    CASE pc = "clarify" /\ NeedClarify -> Call("clarify")
      [] pc = "plan" /\ NeedPlan -> Call("plan")
      [] pc = "loop" /\ ~LoopDone
                     /\ NotCollected(queries_to_run[idx], collected)
                         -> CallSearch(queries_to_run[idx])
      [] pc = "loop" /\ LoopDone
                         -> CallWith("evaluate", collected)
      [] pc = "synthesize" -> CallWith("synthesize", collected)
      [] pc = "more" -> Call("more")
      [] OTHER -> NoCall

\* client.responses.create(...) raises: nothing in main() catches it
RequestFails ==
    /\ NextCall # NoCall
    /\ calls' = Append(calls, NextCall)
    /\ IF pc = "clarify"
       THEN FinishEarly("exc_request")
       ELSE Finish("exc_request") /\ UNCHANGED <<topicIn, answerIn, shown, buttonShown>>
    /\ UNCHANGED <<api_key, store, history>>

Next ==
    \/ \E t \in RawTopics : EditTopic(t)
    \/ \E i \in 1..MaxQuestions, a \in AnswerStrings : EditAnswer(i, a)
    \/ ClickRun
    \/ Step1Topic
    \/ Step2Clarify
    \/ Step3Answers
    \/ Step4Plan
    \/ Step5Button
    \/ Step5Loop
    \/ Step6Evaluate
    \/ Step7Synthesize
    \/ Step8More
    \/ RequestFails

Spec == Init /\ [][Next]_vars

(***************************************************************************)
(* evaluate() on its own: every review text of up to MaxReviewLen          *)
(* characters, for several goals and collected lists.                      *)
(***************************************************************************)
InitEvaluate ==
    /\ api_key = TRUE
    /\ topicIn = <<>>
    /\ answerIn = [i \in 1..MaxQuestions |-> ""]
    /\ shown = <<>>
    /\ buttonShown = FALSE
    /\ clicked = FALSE
    /\ keys = {}
    /\ ss = EmptyStore
    /\ pc = "evaluate"
    /\ topic = <<>>
    /\ questions = <<>>
    /\ answers = <<>>
    /\ plan = NoPlan
    /\ clarify_id = ""
    /\ goal \in {"g1", "g2"}
    /\ queries = <<>>
    /\ collected \in { <<>> } \cup
                     { <<run_search("s1", r)>> : r \in SearchResponses }
    /\ queries_to_run = <<>>
    /\ idx = 0
    /\ review \in SeqsUpTo(ReviewChars, MaxReviewLen)
    /\ satisfied = FALSE
    /\ calls = <<>>
    /\ msg = ""
    /\ planTopic = <<>>
    /\ staleCount = 0
    /\ awaitClick = FALSE

\* lines 79-89, on the review text received
EvaluateReturns ==
    /\ pc = "evaluate"
    /\ satisfied' = evaluate(goal, collected, review)
    /\ pc' = "evaluated"
    /\ UNCHANGED <<api_key, widgets, store, topic, questions, answers, plan,
                   clarify_id, goal, queries, collected, queries_to_run, idx,
                   review, calls, msg, history>>

SpecEvaluate == InitEvaluate /\ [][EvaluateReturns]_vars

TypeOK ==
    /\ pc \in {"idle", "topic", "clarify", "answers", "plan",
               "button", "loop", "synthesize", "more"}
    /\ topicIn \in RawTopics
    /\ \A i \in 1..MaxQuestions : answerIn[i] \in AnswerStrings
    /\ keys \subseteq DOMAIN ss

(***************************************************************************)
(* Properties.                                                             *)
(***************************************************************************)
\* the text typed into the topic widget holds nothing but white space
BlankTopic == \A i \in 1..Len(topicIn) : topicIn[i] \in {" ", "\t", "\n"}

\* C1: a run whose topic is empty after stripping white space ends at once
\* with the prompt "Enter a research topic to begin.", having sent no request
\* to the model service and written no key of the session store, whatever
\* earlier runs left in the store.
C1_EmptyTopicReturns ==
    [][ (pc = "topic" /\ HasClient /\ BlankTopic)
          => /\ pc' = "idle"
             /\ msg' = "info_topic"
             /\ calls' = <<>>
             /\ keys' = keys
             /\ ss' = ss ]_vars

\* an empty-topic run has ended while an earlier run left research_started
\* = True and a non-empty collected list in the store
C1_Witness ==
    /\ pc = "idle"
    /\ msg = "info_topic"
    /\ BlankTopic
    /\ topicIn # <<>>
    /\ ResearchStarted
    /\ "collected" \in keys
    /\ ss.collected # <<>>

NoRepeat(col) ==
    \A i, j \in 1..Len(col) : col[i].query = col[j].query => i = j

\* C2: the collected list of the session store never holds two entries with
\* the same query string, and run_search is never called for a query that
\* already has an entry in the collected list.
C2_NoDuplicateSearch ==
    /\ [](NoRepeat(ss.collected) /\ NoRepeat(collected))
    /\ [][ (Len(calls') = Len(calls) + 1 /\ calls'[Len(calls')].fn = "search")
            => /\ calls'[Len(calls')].q \notin Queries(collected)
               /\ calls'[Len(calls')].q \notin Queries(ss.collected) ]_vars

\* the loop has run through a query list that repeats a query, or that holds
\* a query collected by an earlier run, and has searched something
C2_Witness ==
    /\ pc = "loop"
    /\ LoopDone
    /\ \E i \in 1..Len(queries_to_run) :
          \A k \in 1..Len(calls) : calls[k].q # queries_to_run[i]
    /\ \E k \in 1..Len(calls) : calls[k].fn = "search"
    /\ "collected" \in keys
    /\ Len(ss.collected) >= 2

\* the text holds y, e, s next to each other, in either case
HoldsYes(text) ==
    \E i \in 1..(Len(text) - 2) :
        /\ text[i] \in {"y", "Y"}
        /\ text[i + 1] \in {"e", "E"}
        /\ text[i + 2] \in {"s", "S"}

ResearchKeys == {"goal_plan", "last_answers", "collected", "queries",
                 "research_started"}

\* C4: a run in which some clarifying question has an empty answer ends
\* with "Please answer all clarifying questions.": it sends no plan, search,
\* evaluate, synthesize or follow-up request and leaves goal_plan,
\* last_answers, collected, queries and research_started as they were.
C4_UnansweredReturns ==
    [][ (pc = "answers" /\ \E i \in 1..Len(questions) : answerIn'[i] = "")
          => /\ pc' = "idle"
             /\ msg' = "info_answers"
             /\ calls' = calls
             /\ \A k \in 1..Len(calls') : calls'[k].fn = "clarify"
             /\ keys' \cap ResearchKeys = keys \cap ResearchKeys
             /\ \A f \in ResearchKeys : ss'[f] = ss[f] ]_vars

\* a run with the first question answered and the second not has ended
\* while research_started was True from an earlier run
C4_Witness ==
    /\ pc = "idle"
    /\ msg = "info_answers"
    /\ Len(shown) = 2
    /\ answerIn[1] # ""
    /\ answerIn[2] = ""
    /\ ResearchStarted

\* C5: when the plan response is not valid JSON the run ends there: the
\* plan request is the last one it sent, goal_plan, clarify_id and
\* last_answers are as before the run, and a rerun with the same answers
\* has to ask for the plan again.
C5_BadPlanJsonEndsRun ==
    [][ (pc = "plan" /\ msg' = "exc_json_plan")
          => /\ pc' = "idle"
             /\ calls' = Append(calls, Call("plan"))
             /\ \A k \in 1..Len(calls) : calls[k].fn = "clarify"
             /\ keys' = keys
             /\ ss' = ss
             /\ \/ "goal_plan" \notin keys'
                \/ "last_answers" \notin keys'
                \/ ss'.last_answers # answers ]_vars

\* a run has ended on an invalid plan response while an earlier plan was
\* stored
C5_Witness ==
    /\ pc = "idle"
    /\ msg = "exc_json_plan"
    /\ "goal_plan" \in keys
    /\ ss.goal_plan # NoPlan

\* the questions stored are those of the run's topic
ClarifyCached ==
    /\ "clarify" \in keys
    /\ "last_topic" \in keys
    /\ ss.last_topic = topic

\* C6: a run whose topic equals last_topic with 'clarify' stored sends no
\* clarifying-question request and shows the stored list; otherwise it
\* sends one, after which last_topic is the topic and 'clarify' holds the
\* questions the response gave.
C6_ClarifyCachedByTopic ==
    [][ (pc = "clarify")
          => /\ ClarifyCached
                  => /\ calls' = calls
                     /\ pc' = "answers"
                     /\ questions' = ss.clarify
                     /\ UNCHANGED store
             /\ ~ClarifyCached
                  => /\ calls' = Append(calls, Call("clarify"))
                     /\ pc' = "answers"
                          => /\ {"clarify", "last_topic"} \subseteq keys'
                             /\ ss'.last_topic = topic
                             /\ ss'.clarify = questions'
                             /\ \E t \in ClarifyTexts :
                                    questions' = SplitLines(t) ]_vars

\* a run has shown the stored questions without a request, after an earlier
\* run for another topic had its questions replaced
C6_Witness ==
    /\ pc = "answers"
    /\ calls = <<>>
    /\ questions = ss.clarify
    /\ ss.last_topic = <<"b">>
    /\ Len(questions) = 2
    /\ planTopic = <<"a">>

Rank(f) ==
    CASE f = "clarify"    -> 1
      [] f = "plan"       -> 2
      [] f = "search"     -> 3
      [] f = "evaluate"   -> 4
      [] f = "synthesize" -> 5
      [] f = "more"       -> 5
      [] OTHER            -> 0

\* the requests of a run come in the order clarify, plan, searches,
\* evaluate, then one of synthesize and follow-up; each but search once
CallOrder ==
    \A i, j \in 1..Len(calls) :
        i < j => \/ Rank(calls[i].fn) < Rank(calls[j].fn)
                 \/ calls[i].fn = "search" /\ calls[j].fn = "search"

\* C7: within a run the requests follow the order clarify, plan, searches,
\* evaluate, then synthesize or follow-up generation: evaluate is called at
\* most once, and only when every query of the round's query list has an
\* entry in collected; synthesize only after evaluate returned true, with
\* the collected list evaluate saw; follow-up generation only after evaluate
\* returned false; never both; and a run that ends with the report or with
\* the follow-up queries has called evaluate exactly once.
C7_LinearCallOrder ==
    /\ [](CallOrder)
    /\ [][ Len(calls') = Len(calls) + 1 =>
            LET new  == calls'[Len(calls')]
                last == calls[Len(calls)]
            IN  /\ new.fn = "evaluate"
                     => /\ new.col = collected
                        /\ \A i \in 1..Len(queries_to_run) :
                              queries_to_run[i] \in Queries(collected)
                /\ new.fn = "synthesize"
                     => /\ satisfied
                        /\ HoldsYes(review)
                        /\ calls # <<>> /\ last.fn = "evaluate"
                        /\ new.col = last.col
                /\ new.fn = "more"
                     => /\ ~satisfied
                        /\ calls # <<>> /\ last.fn = "evaluate" ]_vars
    /\ [](pc = "idle" /\ msg \in {"report", "warning_more", "exc_json_more"}
            => Cardinality({k \in 1..Len(calls) : calls[k].fn = "evaluate"}) = 1)

\* a run has sent clarify, plan, a search, evaluate and synthesize requests
C7_Witness ==
    /\ pc = "idle"
    /\ msg = "report"
    /\ Len(calls) >= 5
    /\ calls[1].fn = "clarify"
    /\ calls[2].fn = "plan"
    /\ calls[Len(calls) - 2].fn = "search"
    /\ calls[Len(calls) - 1].fn = "evaluate"
    /\ calls[Len(calls)].fn = "synthesize"

\* C8: once the warning "Click 'Run Research' again" was shown, no run
\* sends a search, evaluate or synthesize request until the button is
\* clicked again.
C8_NoResearchUntilClick ==
    (awaitClick /\ pc # "idle")
        => \A k \in 1..Len(calls) :
               calls[k].fn \notin {"search", "evaluate", "synthesize"}

\* C9: the plan a run displays and uses was generated for the run's topic
\* and the run's answers.
C9_PlanOfCurrentTopicAndAnswers ==
    pc = "button"
        => /\ plan = ss.goal_plan
           /\ ss.last_answers = answers
           /\ planTopic = topic

\* C10: the collected list evaluate saw holds no result searched before the
\* current plan was generated, and holds a result for every query of the
\* current plan.
C10_ResultsOfCurrentPlan ==
    pc \in {"synthesize", "more"}
        => /\ staleCount = 0
           /\ \A i \in 1..Len(plan.queries) :
                 plan.queries[i] \in Queries(collected)

====
